---------------------------- MODULE Spec2Model ----------------------------
(***************************************************************************)
(* Batch-versioned configuration of eKorpkit (src/ekorpkit/config.py):     *)
(* PathConfig, BaseBatchConfig and BaseBatchModel, together with the       *)
(* config directory on disk that the batch number is derived from.         *)
(*                                                                         *)
(* A configuration tree (DictConfig) is a record                           *)
(*   [name, batch : [batch_name, batch_num, output_dir, resume_latest],    *)
(*    path : [root], model : [lr, ep], version].                           *)
(* `model` and `version` stand for the free-form domain fields the entity  *)
(* accepts (Config.extra = "allow").  A path on disk is a sequence of      *)
(* segments; a file is [dir |-> <path>, file |-> <name tokens>].           *)
(***************************************************************************)
EXTENDS Integers, Sequences, FiniteSets, TLC

VARIABLES
    name,       \* BaseBatchModel.name
    batch,      \* BaseBatchModel.batch       (a BaseBatchConfig)
    path,       \* BaseBatchModel.path        (a PathConfig)
    config,     \* BaseBatchModel._config_    (the live snapshot)
    initial,    \* BaseBatchModel._initial_config_ (the baseline)
    shared,     \* nested nodes of _config_ that are the same objects in _initial_config_
    files,      \* files on disk: file path -> document
    dirs,       \* directories on disk
    ctor,       \* history: the arguments the entity was constructed with
    last,       \* history: the last operation, its arguments and what it observed
    steps,      \* history: operations performed so far
    unit,       \* a BaseBatchConfig or PathConfig constructed on its own, and its disk
    builder,    \* a DatasetBuilder, its disk and the calls it has made
    dataset,    \* a Dataset, its disk and the reads it has made
    procs       \* two processes, each with an entity of its own, on one disk

vars == <<name, batch, path, config, initial, shared, files, dirs, ctor, last, steps,
          unit, builder, dataset, procs>>

\* The BaseBatchModel entity with its disk, and the objects modelled apart
\* from it.
entity == <<name, batch, path, config, initial, shared, files, dirs, ctor, last, steps>>
others == <<unit, builder, dataset, procs>>

\* An object that is not part of the specification at hand.
Absent == [pc |-> "absent"]

---------------------------------------------------------------------------
\* Bounds of the model.
MaxNum == 1         \* explicit batch numbers range over 0..MaxNum
MaxSteps == 2       \* operations per behaviour, after the construction
SeedBits == 16      \* width of a generated seed (32 in the code)

\* Inputs.
BaseName == "a"
OtherName == "b"
BaseRoot == "r0"
OtherRoot == "r1"
NewVersion == "0.0.1"

\* Python's None, for string-typed and int-typed values.
None == "None"
Unset == -2

---------------------------------------------------------------------------
\* pathlib / str conversions: a Path is a sequence of segments, its str a
\* tagged copy of it.
Str(p) == <<"str", p>>
ToPath(s) == s[2]

\* PathConfig(**path): the typed view of the `path` node.
PathConfig(p) == [root |-> p.root]

\* PathConfig.root_dir
root_dir(p) == <<p.root>>

\* PathConfig.output_dir
path_output_dir(p) == root_dir(p) \o <<"outputs">>

\* BaseBatchConfig.batch_dir, without the mkdir
batch_dir(b) == b.output_dir \o <<b.batch_name>>

\* BaseBatchConfig.config_dirname
config_dirname == "configs"

\* BaseBatchConfig.config_yaml / config_json
config_yaml == "config.yaml"
config_json == "config.json"

\* BaseBatchConfig.config_dir, without the mkdir
config_dir(b) == batch_dir(b) \o <<config_dirname>>

\* The directories the config_dir property creates (mkdir parents=True).
Mkdirs(b) == {batch_dir(b), config_dir(b)}

\* BaseBatchConfig.file_prefix: f"{batch_name}({batch_num})"
file_prefix(b) == <<b.batch_name, "(", b.batch_num, ")">>

\* BaseBatchConfig.config_filename / config_jsonfile
config_filename(b) == file_prefix(b) \o <<"_", config_yaml>>
config_jsonfile(b) == file_prefix(b) \o <<"_", config_json>>

\* BaseBatchConfig.config_filepattern: f"{batch_name}(*)_{config_yaml}"
config_filepattern(b) == <<b.batch_name, "(", "*", ")", "_", config_yaml>>

\* BaseBatchConfig.config_filepath / config_jsonpath
config_filepath(b) == [dir |-> config_dir(b), file |-> config_filename(b)]
config_jsonpath(b) == [dir |-> config_dir(b), file |-> config_jsonfile(b)]

\* Path.glob: the files of directory d whose name matches the pattern, "*"
\* standing for any token.
Matches(fname, pat) ==
    /\ Len(fname) = Len(pat)
    /\ \A i \in 1..Len(pat) : pat[i] = "*" \/ fname[i] = pat[i]

Glob(fs, d, pat) == {f \in DOMAIN fs : f.dir = d /\ Matches(f.file, pat)}

\* A mutation of init_batch_num: the resume_latest test is inverted.
init_batch_num_swapped(b, fs) ==
    IF b.batch_num = Unset
    THEN LET num_files == Cardinality(Glob(fs, config_dir(b), config_filepattern(b)))
         IN  [b EXCEPT !.batch_num = IF b.resume_latest THEN num_files
                                                        ELSE num_files - 1]
    ELSE b

\* BaseBatchConfig.init_batch_num
init_batch_num(b, fs) ==
    IF b.batch_num = Unset
    THEN LET num_files == Cardinality(Glob(fs, config_dir(b), config_filepattern(b)))
         IN  [b EXCEPT !.batch_num = IF b.resume_latest THEN num_files - 1
                                                        ELSE num_files]
    ELSE b

\* BaseBatchConfig(**data): the fields are validated (output_dir coerced to
\* a Path), then init_batch_num runs.
BaseBatchConfig(data, fs) ==
    init_batch_num([batch_name    |-> data.batch_name,
                    batch_num     |-> data.batch_num,
                    output_dir    |-> ToPath(data.output_dir),
                    resume_latest |-> data.resume_latest], fs)


---------------------------------------------------------------------------
\* Configuration trees.

\* The keys whose value is a nested node (a DictConfig), not a value node.
NodeKeys == {"batch", "path", "model"}

\* BaseBatchModel.Config.exclude
exclude == {"_config_", "_initial_config_", "__data__", "path", "module",
            "secret", "auto", "project"}

\* OmegaConf.merge on one nested node: key by key, the later source wins.
MergeNode(x, y) ==
    [k \in DOMAIN x \cup DOMAIN y |-> IF k \in DOMAIN y THEN y[k] ELSE x[k]]

\* eKonf.merge(a, b): a new tree (a deep copy of a) with b merged in; nested
\* nodes are merged structurally.
Merge(a, b) ==
    [k \in DOMAIN a \cup DOMAIN b |->
        IF k \notin DOMAIN b THEN a[k]
        ELSE IF k \in DOMAIN a /\ k \in NodeKeys THEN MergeNode(a[k], b[k])
        ELSE b[k]]

\* The merged configuration an entity for `n` is composed from: batch_num
\* unset, batch.output_dir at its default (cwd/outputs), a path node present.
CwdOutputs == <<"cwd", "outputs">>

Compose(n, resume) ==
    [name    |-> n,
     batch   |-> [batch_name    |-> n,
                  batch_num     |-> Unset,
                  output_dir    |-> Str(CwdOutputs),
                  resume_latest |-> resume],
     path    |-> [root |-> BaseRoot],
     model   |-> [lr |-> 1, ep |-> 1],
     version |-> "0.0.0"]

---------------------------------------------------------------------------
\* BaseBatchModel.  Each method is an operator from the entity-and-disk
\* state s = [name, batch, path, config, initial, shared, files, dirs] to
\* the state it leaves.

\* A write to key k of nested node `node` of the live snapshot.  While the
\* node is shared with the baseline (DictConfig.copy() is shallow: nested
\* nodes are not copied), the baseline sees the write as well.
WriteNode(s, node, k, v) ==
    [s EXCEPT !.config[node][k] = v,
              !.initial[node][k] = IF node \in s.shared THEN v ELSE @]

\* BaseBatchModel.set_output_dir
set_output_dir(s, val) ==
    [WriteNode(s, "batch", "output_dir", Str(val)) EXCEPT !.batch.output_dir = val]

\* BaseBatchModel.set_batch_num
set_batch_num(s, val) ==
    [WriteNode(s, "batch", "batch_num", val) EXCEPT !.batch.batch_num = val]

\* BaseBatchModel.set_root_dir.  The configurations of this model carry a
\* path node, so the default path is never composed.
set_root_dir(s, rd) ==
    LET s1 == IF rd # None THEN WriteNode(s, "path", "root", rd) ELSE s
        s2 == [s1 EXCEPT !.path = PathConfig(s1.config.path)]
    IN  set_output_dir(s2, path_output_dir(s2.path))      \* self.output_dir = ...

\* BaseBatchModel.initialize_configs
initialize_configs(s, rd) ==
    LET s1 == set_root_dir(s, rd)                          \* self.root_dir = root_dir
        b  == BaseBatchConfig(s1.config.batch, s1.files)
        s2 == [s1 EXCEPT !.batch = b,
                         !.dirs = IF s1.config.batch.batch_num = Unset
                                  THEN @ \cup Mkdirs(b) ELSE @]
    IN  set_batch_num(s2, b.batch_num)                     \* self.batch_num = ...

\* A mutation of set_batch_name: the live snapshot's name is not patched.
RECURSIVE set_batch_name_noname(_, _)
set_batch_name_noname(s, val) ==
    LET s1 == [WriteNode(s, "batch", "batch_name", val)
                  EXCEPT !.batch.batch_name = val]
        s2 == IF s1.name = None \/ s1.name # val
              THEN set_batch_name_noname([s1 EXCEPT !.name = val], val)
              ELSE s1
    IN  initialize_configs(s2, None)

\* BaseBatchModel.set_batch_name.  `self.name = val` goes through
\* __setattr__, which stores the name and calls set_batch_name again.
RECURSIVE set_batch_name(_, _)
set_batch_name(s, val) ==
    LET s1 == [WriteNode(s, "batch", "batch_name", val)
                  EXCEPT !.config.name = val, !.batch.batch_name = val]
        s2 == IF s1.name = None \/ s1.name # val
              THEN set_batch_name([s1 EXCEPT !.name = val], val)
              ELSE s1
    IN  initialize_configs(s2, None)

\* BaseBatchModel.__setattr__ for the keys of property_set_methods.
setattr(s, key, val) ==
    CASE key = "name"       -> set_batch_name([s EXCEPT !.name = val], val)
      [] key = "batch_name" -> set_batch_name(s, val)
      [] key = "batch_num"  -> set_batch_num(s, val)
      [] key = "output_dir" -> set_output_dir(s, val)
      [] key = "root_dir"   -> set_root_dir(s, val)

\* BaseBatchModel.__init__ on disk (fs, ds): pydantic builds the fields
\* (the batch sub-object scans the configured output_dir), the snapshot and
\* its copy are kept, then initialize_configs runs.
New(fs, ds, args, rd) ==
    LET b0 == BaseBatchConfig(args.batch, fs)
        s0 == [name    |-> args.name,
               batch   |-> b0,
               path    |-> PathConfig(args.path),
               config  |-> args,
               initial |-> args,
               shared  |-> NodeKeys,
               files   |-> fs,
               dirs    |-> IF args.batch.batch_num = Unset
                           THEN ds \cup Mkdirs(b0) ELSE ds]
    IN  initialize_configs(s0, rd)

\* Python's None where a configuration tree is expected.
NoConfig == [none |-> TRUE]

\* The flattened settings document of save_settings: the entity's fields
\* minus the excluded ones, a Path written as its str (the dumper).
Settings(s) ==
    LET d == [name  |-> s.name,
              batch |-> [s.batch EXCEPT !.output_dir = Str(@)],
              path  |-> s.path]
    IN  [k \in DOMAIN d \ exclude |-> d[k]]

\* A mutation of save_config: the exclude list is applied although an
\* include list is given, and the include list is ignored.
save_config_noinclude(s, cfg, include) ==
    LET s1   == IF cfg # NoConfig
                THEN [s EXCEPT !.config = cfg, !.shared = {}]
                ELSE s
        d    == s1.config
        args == [k \in DOMAIN d \ exclude |-> d[k]]
    IN  [s1 EXCEPT !.files = (config_filepath(s1.batch) :> args)
                             @@ (config_jsonpath(s1.batch) :> Settings(s1))
                             @@ @,
                   !.dirs  = @ \cup Mkdirs(s1.batch)]

\* BaseBatchModel.save_config(config, include=include), exclude left at its
\* default; save_settings included.  `include` is the set of the listed keys,
\* empty when no include list is given.
save_config(s, cfg, include) ==
    LET s1   == IF cfg # NoConfig
                THEN [s EXCEPT !.config = cfg, !.shared = {}]
                ELSE s
        d    == s1.config
        args == IF include # {}
                THEN [k \in include |-> d[k]]
                ELSE [k \in DOMAIN d \ exclude |-> d[k]]
    IN  [s1 EXCEPT !.files = (config_filepath(s1.batch) :> args)
                             @@ (config_jsonpath(s1.batch) :> Settings(s1))
                             @@ @,
                   !.dirs  = @ \cup Mkdirs(s1.batch)]

\* The file load_config looks for: config_filepath of the batch sub-object
\* once batch_name and batch_num are stored in it (lines 414-416).
LoadPath(s, batch_name, batch_num) ==
    config_filepath([s.batch EXCEPT !.batch_name = batch_name,
                                    !.batch_num  = batch_num])

\* A mutation of load_config: the requested number is kept when no config
\* file is found (line 424 left out).
load_config_keeps(s, batch_name_arg, batch_num_arg, args) ==
    LET batch_name == IF batch_name_arg = None THEN s.batch.batch_name
                                               ELSE batch_name_arg
        s1 == IF batch_num_arg # Unset
              THEN [s EXCEPT !.batch.batch_name = batch_name,
                             !.batch.batch_num  = batch_num_arg,
                             !.dirs = @ \cup Mkdirs([s.batch EXCEPT
                                                      !.batch_name = batch_name])]
              ELSE s
        p     == LoadPath(s, batch_name, batch_num_arg)
        found == batch_num_arg # Unset /\ p \in DOMAIN s.files
        cfg   == IF batch_num_arg # Unset
                 THEN IF found THEN Merge(s.initial, s.files[p]) ELSE s.initial
                 ELSE s.config
        s2 == [s1 EXCEPT !.config = Merge(cfg, args), !.shared = {}]
        s3 == setattr(s2, "batch_num", batch_num_arg)
    IN  setattr(s3, "batch_name", batch_name)

\* BaseBatchModel.load_config(batch_name, batch_num, **args)
load_config(s, batch_name_arg, batch_num_arg, args) ==
    LET batch_name == IF batch_name_arg = None THEN s.batch.batch_name
                                               ELSE batch_name_arg
        s1 == IF batch_num_arg # Unset
              THEN [s EXCEPT !.batch.batch_name = batch_name,
                             !.batch.batch_num  = batch_num_arg,
                             !.dirs = @ \cup Mkdirs([s.batch EXCEPT
                                                      !.batch_name = batch_name])]
              ELSE s
        p     == LoadPath(s, batch_name, batch_num_arg)
        found == batch_num_arg # Unset /\ p \in DOMAIN s.files
        cfg   == IF batch_num_arg # Unset
                 THEN IF found THEN Merge(s.initial, s.files[p]) ELSE s.initial
                 ELSE s.config
        batch_num == IF found THEN batch_num_arg ELSE Unset
        s2 == [s1 EXCEPT !.config = Merge(cfg, args), !.shared = {}]
        s3 == setattr(s2, "batch_num", batch_num)
    IN  setattr(s3, "batch_name", batch_name)

---------------------------------------------------------------------------
\* The state of the entity and the disk as one record, and back.
State ==
    [name |-> name, batch |-> batch, path |-> path, config |-> config,
     initial |-> initial, shared |-> shared, files |-> files, dirs |-> dirs]

Becomes(s) ==
    /\ name' = s.name
    /\ batch' = s.batch
    /\ path' = s.path
    /\ config' = s.config
    /\ initial' = s.initial
    /\ shared' = s.shared
    /\ files' = s.files
    /\ dirs' = s.dirs

\* Inputs of the operations.
NoArgs == <<>>
SomeArgs == [version |-> "0.0.2", model |-> [ep |-> 2]]
SomeKeys == {"name", "batch"}
Nums == 0..MaxNum
RootArgs == {None, OtherRoot}

\* save_config calls: <<config, include>>.
SaveCalls ==
    {<<NoConfig, {}>>, <<NoConfig, SomeKeys>>, <<Compose(OtherName, FALSE), {}>>}

\* load_config calls: <<batch_name, batch_num, args>>.
LoadCalls ==
    ({None} \X (Nums \cup {Unset}) \X {NoArgs})
        \cup ({OtherName} \X (Nums \cup {Unset}) \X {SomeArgs})

\* The disk an earlier run leaves behind: an entity BaseName that was given
\* batch number k and then called save_config(config=cfg, include=include).
PriorRun(k, cfg, include) ==
    save_config(setattr(New(<<>>, {}, Compose(BaseName, FALSE), None),
                        "batch_num", k),
                cfg, include)

\* The earlier runs the model starts after; <<Unset>> is none at all.
Priors ==
    {<<Unset>>} \cup {<<k, NoConfig, {}>> : k \in Nums}
        \cup {<<0, c[1], c[2]>> : c \in SaveCalls}

\* The merged configuration the entity was constructed from.
CtorArgs == Compose(ctor.name, ctor.resume)

\* What a construction records of the run it follows.
Previous ==
    [fresh_save |-> last.op = "save" /\ last.fresh /\ last.config = NoConfig
                    /\ last.include = {},
     name |-> name, num |-> batch.batch_num, ctor |-> ctor]

\* The state after construction, on the disk an earlier run left.
Init ==
    \E rd \in RootArgs, pr \in Priors :
        LET fs == IF pr[1] = Unset THEN <<>> ELSE PriorRun(pr[1], pr[2], pr[3]).files
            ds == IF pr[1] = Unset THEN {} ELSE PriorRun(pr[1], pr[2], pr[3]).dirs
            s  == New(fs, ds, Compose(BaseName, FALSE), rd)
        IN  /\ name = s.name
            /\ batch = s.batch
            /\ path = s.path
            /\ config = s.config
            /\ initial = s.initial
            /\ shared = s.shared
            /\ files = s.files
            /\ dirs = s.dirs
            /\ ctor = [name |-> BaseName, resume |-> FALSE, root_dir |-> rd]
            /\ last = [op |-> "construct", prev |-> [fresh_save |-> FALSE]]
            /\ steps = 0
            /\ unit = Absent
            /\ builder = Absent
            /\ dataset = Absent
            /\ procs = Absent

\* The next run: a new entity is constructed from the same configuration
\* (resume_latest as given), on the disk as it is.
Construct(resume) ==
    /\ steps < MaxSteps
    /\ Becomes(New(files, dirs, Compose(ctor.name, resume), ctor.root_dir))
    /\ ctor' = [ctor EXCEPT !.resume = resume]
    /\ last' = [op |-> "construct", prev |-> Previous]
    /\ steps' = steps + 1
    /\ UNCHANGED others

\* entity.<key> = val, for a key of property_set_methods.
SetAttr(key, val) ==
    /\ steps < MaxSteps
    /\ Becomes(setattr(State, key, val))
    /\ last' = [op |-> "setattr", key |-> key, val |-> val,
                pre_num |-> batch.batch_num]
    /\ steps' = steps + 1
    /\ UNCHANGED ctor
    /\ UNCHANGED others

\* entity.save_config(config=cfg, include=include)
SaveConfig(cfg, include) ==
    /\ steps < MaxSteps
    /\ Becomes(save_config(State, cfg, include))
    /\ last' = [op |-> "save", config |-> cfg, include |-> include,
                returned |-> config_filename(batch),
                fresh |-> last.op = "construct"]
    /\ steps' = steps + 1
    /\ UNCHANGED ctor
    /\ UNCHANGED others

\* entity.load_config(batch_name, batch_num, **args)
LoadConfig(batch_name, batch_num, args) ==
    /\ steps < MaxSteps
    /\ Becomes(load_config(State, batch_name, batch_num, args))
    /\ last' = [op |-> "load", batch_name |-> batch_name, batch_num |-> batch_num,
                args |-> args,
                path |-> LoadPath(State, IF batch_name = None
                                         THEN batch.batch_name ELSE batch_name,
                                  batch_num),
                pre_num |-> batch.batch_num,
                fresh |-> last.op = "construct"]
    /\ steps' = steps + 1
    /\ UNCHANGED ctor
    /\ UNCHANGED others

\* The caller writes a value node of the live snapshot through
\* entity.config: config.version = v.
MutateVersion(v) ==
    /\ steps < MaxSteps
    /\ config' = [config EXCEPT !.version = v]
    /\ last' = [op |-> "mutate", key |-> "version"]
    /\ steps' = steps + 1
    /\ UNCHANGED <<name, batch, path, initial, shared, files, dirs, ctor>>
    /\ UNCHANGED others

\* The caller writes inside a nested node of the live snapshot through
\* entity.config: config.model.lr = r.
MutateModel(r) ==
    /\ steps < MaxSteps
    /\ Becomes(WriteNode(State, "model", "lr", r))
    /\ last' = [op |-> "mutate", key |-> "model"]
    /\ steps' = steps + 1
    /\ UNCHANGED ctor
    /\ UNCHANGED others

Next ==
    \/ \E resume \in BOOLEAN : Construct(resume)
    \/ \E key \in {"name", "batch_name"} : SetAttr(key, OtherName)
    \/ \E val \in Nums : SetAttr("batch_num", val)
    \/ SetAttr("output_dir", path_output_dir([root |-> OtherRoot]))
    \/ SetAttr("root_dir", OtherRoot)
    \/ \E c \in SaveCalls : SaveConfig(c[1], c[2])
    \/ \E c \in LoadCalls : LoadConfig(c[1], c[2], c[3])
    \/ MutateVersion(NewVersion)
    \/ MutateModel(2)

Spec == Init /\ [][Next]_vars

---------------------------------------------------------------------------
\* BaseBatchConfig and PathConfig constructed on their own (pydantic models).
\* A str that takes part in a file name is a sequence of tokens: "" is <<>>,
\* ".csv" is <<".", "csv">>.

\* Python's None where such a str is expected.
NoStr == <<None>>

\* The largest value random.randint(0, 2**32 - 1) returns: 2**SeedBits - 1.
\* The code's width is 32, beyond the integers of the model checker; the
\* model keeps the shape of the range at a smaller width.
MaxSeed == 2^SeedBits - 1

\* random.randint(a, b) with the bounds swapped for an exclusive upper bound
\* of b + 1: an off-by-one mutation.
randint_wide(a, b) == {a, a + 1, b, b + 1}

\* random.randint(a, b): any integer N with a <= N <= b.  The outcomes kept
\* are the two ends of the range and their neighbours.
randint(a, b) == {a, a + 1, b - 1, b}

\* BaseBatchConfig._validate_seed; r is what random.randint returns.
validate_seed(v, values, r) ==
    IF values.random_seed \/ v = Unset \/ v < 0 THEN r ELSE v

\* str.strip("."): leading and trailing "." tokens removed.
RECURSIVE strip(_)
strip(v) ==
    IF v = <<>> THEN v
    ELSE IF Head(v) = "." THEN strip(Tail(v))
    ELSE IF v[Len(v)] = "." THEN strip(SubSeq(v, 1, Len(v) - 1))
    ELSE v

\* A mutation of _validate_output_extention: the dots are not stripped.
validate_output_extention_asis(v) ==
    IF v # NoStr /\ v # <<>> THEN v ELSE <<>>

\* BaseBatchConfig._validate_output_extention
validate_output_extention(v) ==
    IF v # NoStr /\ v # <<>> THEN strip(v) ELSE <<>>

\* pydantic: a field the caller passes goes through its validator; a field
\* the caller omits takes its default, and the validator does not run
\* (the validators are not declared with always=True).
Field(data, key, default) == IF key \in DOMAIN data THEN data[key] ELSE default

\* BaseBatchConfig(**data) with the fields of the derived names and of the
\* seed; r is what random.randint returns if the seed validator runs.
NewBatchConfig(data, fs, r) ==
    LET random_seed == Field(data, "random_seed", TRUE)
    IN  init_batch_num(
            [batch_name       |-> data.batch_name,
             batch_num        |-> Field(data, "batch_num", Unset),
             output_dir       |-> CwdOutputs,
             output_suffix    |-> Field(data, "output_suffix", None),
             output_extention |-> IF "output_extention" \in DOMAIN data
                                  THEN validate_output_extention(data.output_extention)
                                  ELSE <<>>,
             random_seed      |-> random_seed,
             seed             |-> IF "seed" \in DOMAIN data
                                  THEN validate_seed(data.seed,
                                                     [random_seed |-> random_seed], r)
                                  ELSE Unset,
             resume_latest    |-> FALSE], fs)

\* BaseBatchConfig.output_file
output_file(b) ==
    IF b.output_suffix # None /\ b.output_suffix # ""
    THEN file_prefix(b) \o <<"_", b.output_suffix, ".">> \o b.output_extention
    ELSE file_prefix(b) \o <<".">> \o b.output_extention

\* PathConfig(**data) with its batch_name (extra = "ignore").
NewPathConfig(data) == [root |-> data.root, batch_name |-> data.batch_name]

\* A mutation of PathConfig.batch_dir: built on root_dir, not on output_dir.
path_batch_dir_flat(p) == root_dir(p) \o <<p.batch_name>>

\* PathConfig.batch_dir and the directories beside it.
path_batch_dir(p) == path_output_dir(p) \o <<p.batch_name>>
library_dir(p) == root_dir(p) \o <<"libs">>
data_dir(p) == root_dir(p) \o <<"data">>
model_dir(p) == root_dir(p) \o <<"models">>
cache_dir(p) == root_dir(p) \o <<"cache">>
tmp_dir(p) == root_dir(p) \o <<"tmp">>

\* No BaseBatchModel entity: the state of its variables in the
\* specifications of the other objects.
NoEntity ==
    /\ name = None
    /\ batch = Absent
    /\ path = Absent
    /\ config = NoConfig
    /\ initial = NoConfig
    /\ shared = {}
    /\ files = <<>>
    /\ dirs = {}
    /\ ctor = Absent
    /\ last = Absent
    /\ steps = 0

\* The arguments a caller may pass or omit: the set of the argument records
\* with key absent or bound to one of vals.
Opt(key, vals) == {<<>>} \cup {key :> v : v \in vals}

\* BaseBatchConfig arguments: those that decide the seed, and those that
\* decide the derived names and directories.
SeedDatas ==
    {[batch_name |-> BaseName] @@ d @@ e :
        d \in Opt("random_seed", BOOLEAN), e \in Opt("seed", {Unset, -1, 0, 42})}

NameDatas ==
    {[batch_name |-> BaseName] @@ a @@ b @@ c :
        a \in Opt("batch_num", {0}),
        b \in Opt("output_suffix", {"", "s"}),
        c \in Opt("output_extention", {NoStr, <<>>, <<".", "csv">>, <<"csv">>})}

\* PathConfig arguments.
PathDatas ==
    {[root |-> r, batch_name |-> n] :
        r \in {BaseRoot, OtherRoot}, n \in {BaseName, OtherName}}

\* The properties read off a BaseBatchConfig and off a PathConfig.
BatchProps == {"batch_dir", "config_dir", "file_prefix", "output_file",
               "config_filename", "config_jsonfile"}
PathProps == {"output_dir", "batch_dir", "library_dir", "data_dir", "model_dir",
              "cache_dir", "tmp_dir"}

\* The value of property prop of object obj of class cls.
Property(cls, obj, prop) ==
    IF cls = "BaseBatchConfig"
    THEN CASE prop = "batch_dir"       -> batch_dir(obj)
           [] prop = "config_dir"      -> config_dir(obj)
           [] prop = "file_prefix"     -> file_prefix(obj)
           [] prop = "output_file"     -> output_file(obj)
           [] prop = "config_filename" -> config_filename(obj)
           [] prop = "config_jsonfile" -> config_jsonfile(obj)
    ELSE CASE prop = "output_dir"      -> path_output_dir(obj)
           [] prop = "batch_dir"       -> path_batch_dir(obj)
           [] prop = "library_dir"     -> library_dir(obj)
           [] prop = "data_dir"        -> data_dir(obj)
           [] prop = "model_dir"       -> model_dir(obj)
           [] prop = "cache_dir"       -> cache_dir(obj)
           [] prop = "tmp_dir"         -> tmp_dir(obj)

\* The directories that reading the property creates (mkdir, exist_ok):
\* BaseBatchConfig.batch_dir and config_dir do, PathConfig properties do not.
Creates(cls, obj, prop) ==
    IF cls = "BaseBatchConfig" /\ prop = "batch_dir" THEN {batch_dir(obj)}
    ELSE IF cls = "BaseBatchConfig" /\ prop = "config_dir" THEN Mkdirs(obj)
    ELSE {}

InitUnit ==
    /\ NoEntity
    /\ builder = Absent
    /\ dataset = Absent
    /\ procs = Absent
    /\ \/ \E d \in SeedDatas \cup NameDatas :
              unit = [pc |-> "args", class |-> "BaseBatchConfig", data |-> d,
                      dirs |-> {}]
       \/ \E d \in PathDatas :
              unit = [pc |-> "args", class |-> "PathConfig", data |-> d, dirs |-> {}]

\* BaseBatchConfig(**data) on an empty disk.
ConstructBatchConfig ==
    /\ unit.pc = "args"
    /\ unit.class = "BaseBatchConfig"
    /\ \E r \in randint(0, MaxSeed) :
          LET b == NewBatchConfig(unit.data, <<>>, r)
          IN  unit' = [pc |-> "made", class |-> unit.class, data |-> unit.data,
                       obj |-> b,
                       dirs |-> IF "batch_num" \in DOMAIN unit.data
                                THEN unit.dirs ELSE unit.dirs \cup Mkdirs(b),
                       resolved |-> <<>>]
    /\ UNCHANGED <<entity, builder, dataset, procs>>

\* PathConfig(**data)
ConstructPathConfig ==
    /\ unit.pc = "args"
    /\ unit.class = "PathConfig"
    /\ unit' = [pc |-> "made", class |-> unit.class, data |-> unit.data,
                obj |-> NewPathConfig(unit.data), dirs |-> unit.dirs,
                resolved |-> <<>>]
    /\ UNCHANGED <<entity, builder, dataset, procs>>

\* obj.<prop> is read.
Resolve(prop) ==
    /\ unit.pc = "made"
    /\ prop \in IF unit.class = "BaseBatchConfig" THEN BatchProps ELSE PathProps
    /\ unit' = [unit EXCEPT
                  !.resolved = <<prop, Property(unit.class, unit.obj, prop)>>,
                  !.dirs = @ \cup Creates(unit.class, unit.obj, prop)]
    /\ UNCHANGED <<entity, builder, dataset, procs>>

NextUnit ==
    \/ ConstructBatchConfig
    \/ ConstructPathConfig
    \/ \E prop \in BatchProps \cup PathProps : Resolve(prop)

SpecUnit == InitUnit /\ [][NextUnit]_vars

---------------------------------------------------------------------------
\* The seed of a BaseBatchModel.  The entity is the record of its batch
\* node (config.batch, `data`), its batch sub-object (`obj`), the seed it
\* had when its constructor returned (`seed0`) and the operations done.

\* initialize_configs: self.batch = batch_config_class(**self.config.batch);
\* r is what random.randint returns if the seed validator runs.
initialize_batch(u, r) == [u EXCEPT !.obj = NewBatchConfig(u.data, <<>>, r)]

\* The keys of property_set_methods whose setter re-runs initialize_configs
\* (set_batch_name), and those whose setter does not.
ReinitKeys == {"name", "batch_name"}
KeepKeys == {"batch_num", "output_dir", "root_dir"}

InitSeed ==
    /\ NoEntity
    /\ builder = Absent
    /\ dataset = Absent
    /\ procs = Absent
    /\ \E d \in SeedDatas :
           unit = [pc |-> "args", class |-> "BaseBatchModel", data |-> d]

\* BaseBatchModel(**args): pydantic builds the batch field, then
\* initialize_configs builds it again.
ConstructModel ==
    /\ unit.pc = "args"
    /\ \E r1, r2 \in randint(0, MaxSeed) :
          LET u0 == [pc |-> "made", class |-> unit.class, data |-> unit.data,
                     obj |-> NewBatchConfig(unit.data, <<>>, r1),
                     seed0 |-> Unset, ops |-> 0, op |-> "construct"]
              u1 == initialize_batch(u0, r2)
          IN  unit' = [u1 EXCEPT !.seed0 = u1.obj.seed]
    /\ UNCHANGED <<entity, builder, dataset, procs>>

\* entity.name = val, entity.batch_name = val
AssignName(key) ==
    /\ unit.pc = "made"
    /\ unit.ops < MaxSteps
    /\ key \in ReinitKeys
    /\ \E r \in randint(0, MaxSeed) :
          unit' = [initialize_batch(unit, r) EXCEPT !.ops = @ + 1, !.op = key]
    /\ UNCHANGED <<entity, builder, dataset, procs>>

\* entity.batch_num = val, entity.output_dir = val, entity.root_dir = val
AssignOther(key) ==
    /\ unit.pc = "made"
    /\ unit.ops < MaxSteps
    /\ key \in KeepKeys
    /\ unit' = [unit EXCEPT !.ops = @ + 1, !.op = key]
    /\ UNCHANGED <<entity, builder, dataset, procs>>

\* entity.load_config(): it ends with self.batch_name = batch_name.
ReloadConfig ==
    /\ unit.pc = "made"
    /\ unit.ops < MaxSteps
    /\ \E r \in randint(0, MaxSeed) :
          unit' = [initialize_batch(unit, r) EXCEPT !.ops = @ + 1,
                                                   !.op = "load_config"]
    /\ UNCHANGED <<entity, builder, dataset, procs>>

NextSeed ==
    \/ ConstructModel
    \/ \E key \in ReinitKeys : AssignName(key)
    \/ \E key \in KeepKeys : AssignOther(key)
    \/ ReloadConfig

SpecSeed == InitSeed /\ [][NextSeed]_vars

---------------------------------------------------------------------------
\* Two processes on one disk.  Each constructs an entity of its own for
\* the same batch name and then calls save_config; nothing is locked, so
\* the steps of the two interleave freely.  `files` and `dirs` are the disk;
\* procs.ents[p] is process p with its entity s, procs.log the steps taken.

Procs == {1, 2}

\* The configuration process p composes: the same batch, its own version.
ProcArgs(p) ==
    [Compose(BaseName, FALSE) EXCEPT !.version = IF p = 1 THEN "0.0.0" ELSE NewVersion]

\* A mutation of the save of a process: the batch number is derived again
\* from the directory as it is at the time of the save.
race_save_rescan(s, fs, ds, cfg, include) ==
    LET s0 == [s EXCEPT !.files = fs, !.dirs = ds]
        b  == init_batch_num([s0.batch EXCEPT !.batch_num = Unset], fs)
    IN  save_config(set_batch_num(s0, b.batch_num), cfg, include)

\* entity.save_config(config=cfg, include=include) by a process whose
\* entity is s, on the disk (fs, ds) as the other process left it.
race_save(s, fs, ds, cfg, include) ==
    save_config([s EXCEPT !.files = fs, !.dirs = ds], cfg, include)

InitRace ==
    /\ name = None
    /\ batch = Absent
    /\ path = Absent
    /\ config = NoConfig
    /\ initial = NoConfig
    /\ shared = {}
    /\ ctor = Absent
    /\ last = Absent
    /\ steps = 0
    /\ unit = Absent
    /\ builder = Absent
    /\ dataset = Absent
    /\ \E pr \in Priors :
          /\ files = IF pr[1] = Unset THEN <<>>
                     ELSE PriorRun(pr[1], pr[2], pr[3]).files
          /\ dirs = IF pr[1] = Unset THEN {}
                    ELSE PriorRun(pr[1], pr[2], pr[3]).dirs
    /\ procs = [ents |-> [p \in Procs |-> [pc |-> "start"]], log |-> <<>>]

\* Process p constructs its entity: the directory is scanned.
RaceConstruct(p, rd) ==
    /\ procs.ents[p].pc = "start"
    /\ LET s == New(files, dirs, ProcArgs(p), rd)
       IN  /\ files' = s.files
           /\ dirs' = s.dirs
           /\ procs' = [procs EXCEPT !.ents[p] = [pc |-> "made", s |-> s],
                                     !.log = Append(@, <<p, "construct">>)]
    /\ UNCHANGED <<name, batch, path, config, initial, shared, ctor, last, steps,
                   unit, builder, dataset>>

\* Process p calls save_config.
RaceSave(p, cfg, include) ==
    /\ procs.ents[p].pc = "made"
    /\ LET s == race_save(procs.ents[p].s, files, dirs, cfg, include)
       IN  /\ files' = s.files
           /\ dirs' = s.dirs
           /\ procs' = [procs EXCEPT !.ents[p] = [pc |-> "saved", s |-> s],
                                     !.log = Append(@, <<p, "save">>)]
    /\ UNCHANGED <<name, batch, path, config, initial, shared, ctor, last, steps,
                   unit, builder, dataset>>

NextRace ==
    \/ \E p \in Procs, rd \in RootArgs : RaceConstruct(p, rd)
    \/ \E p \in Procs, c \in SaveCalls : RaceSave(p, c[1], c[2])

SpecRace == InitRace /\ [][NextRace]_vars

---------------------------------------------------------------------------
\* DatasetBuilder (src/ekorpkit/io/fetch/build.py).  The builder and its
\* world are one record b: the fields of the object, `disk` (the files that
\* exist), `calls` (the calls made to the collaborators, in order), `pc` and,
\* once an exception has left build(), `error` and the split it came from.
\* A table (dataframe) is the sequence of the stages it has been through.

\* Python's None where a list of sources is expected.
NoSource == <<None>>

\* A table is the sequence of the stages it went through; the loader can
\* return None instead of one.
NoTable == <<None>>
Table == <<"loader">>

\* The call of a collaborator is recorded.
Call(b, fn, split, df) ==
    [b EXCEPT !.calls = Append(@, [fn |-> fn, split |-> split, df |-> df])]

\* An exception leaves build().
Raise(b, error, split) ==
    [b EXCEPT !.pc = "raised", !.error = error, !.raised_in = split]

\* DatasetBuilder.__init__: fetch.data_sources is a str, a list, a dict
\* (a sequence of [split, source] in the order of the dict) or absent.
fetch_sources(ds) ==
    LET s1 == IF ds.type = "str" THEN [type |-> "list", value |-> <<ds.value>>]
              ELSE ds
    IN  IF s1.type = "list"
        THEN [type |-> "dict",
              value |-> <<[split |-> "train", source |-> s1.value]>>]
        ELSE s1

\* DatasetBuilder.__init__
DatasetBuilder(args, disk) ==
    LET fetch_args    == args.fetch
        pipeline_args == Field(args, "pipeline", <<>>)
    IN  [name               |-> args.name,
         data_dir           |-> args.data_dir,
         data_filetype      |-> Field(args, "filetype", "parquet"),
         column_info        |-> Field(args, "column_info", NoConfig),
         fetch_sources      |-> fetch_sources(Field(fetch_args, "data_sources",
                                                    [type |-> "none"])),
         overwrite          |-> Field(fetch_args, "overwrite", FALSE),
         calculate_stats    |-> Field(fetch_args, "calculate_stats", FALSE),
         preprocess_text    |-> Field(fetch_args, "preprocess_text", FALSE),
         downloader         |-> Field(fetch_args, "downloader", NoConfig),
         info_args          |-> Field(args, "info", NoConfig),
         summary_info       |-> FALSE,
         pipeline_args      |-> pipeline_args,
         transform_pipeline |-> Field(pipeline_args, "_transform_", <<>>),
         process_pipeline   |-> Field(pipeline_args, "_preprocess_", <<>>),
         disk               |-> disk,
         existed            |-> disk,
         calls              |-> <<>>,
         todo               |-> <<>>,
         error              |-> None,
         raised_in          |-> None,
         pc                 |-> "made"]

\* _process_split: output_file and output_meta_file of a split.
split_output_file(b, split_name) ==
    [dir |-> b.data_dir, file |-> <<b.name, "-", split_name, b.data_filetype>>]
split_output_meta_file(b, split_name) ==
    [dir |-> b.data_dir, file |-> <<"meta-", b.name, "-", split_name, b.data_filetype>>]

\* pipeline.append(pipe) if pipe is configured and not yet in the pipeline.
WithPipe(b, pipeline, pipe) ==
    IF pipe \in DOMAIN b.pipeline_args /\ \A i \in DOMAIN pipeline : pipeline[i] # pipe
    THEN Append(pipeline, pipe)
    ELSE pipeline

\* apply_pipeline(df, pipeline, pipeline_args) for one split: the steps run
\* in order, each on the table the step before it returned; save_dataframe
\* and save_metadata write the file named by their filepath argument.
\* The result is [b |-> the world after, df |-> the table returned].
RECURSIVE apply_pipeline(_, _, _, _)
apply_pipeline(b, df, pipeline, split_name) ==
    IF pipeline = <<>> THEN [b |-> b, df |-> df]
    ELSE LET pipe == Head(pipeline)
             b1   == Call(b, pipe, split_name, df)
             b2   == CASE pipe = "save_dataframe" ->
                            [b1 EXCEPT !.disk = @ \cup {split_output_file(b, split_name)}]
                       [] pipe = "save_metadata" ->
                            [b1 EXCEPT !.disk = @ \cup {split_output_meta_file(b, split_name)}]
                       [] OTHER -> b1
         IN  apply_pipeline(b2, Append(df, pipe), Tail(pipeline), split_name)

\* A mutation of the tail of _process_split: the statistics are computed on
\* the table as it was before the process pipeline.
process_split_tail_stale(b, df, split_name) ==
    LET r  == IF b.process_pipeline # <<>>
              THEN apply_pipeline(b, df, b.process_pipeline, split_name)
              ELSE [b |-> b, df |-> df]
    IN  IF b.calculate_stats /\ b.summary_info
        THEN Call(r.b, "calculate_stats", split_name, df)
        ELSE r.b

\* _process_split from `if df is None` on (lines 160-169): the process
\* pipeline, then the statistics.
process_split_tail(b, df, split_name) ==
    LET r  == IF b.process_pipeline # <<>>
              THEN apply_pipeline(b, df, b.process_pipeline, split_name)
              ELSE [b |-> b, df |-> df]
    IN  IF b.calculate_stats /\ b.summary_info
        THEN Call(r.b, "calculate_stats", split_name, r.df)
        ELSE r.b

\* A mutation of _process_split: a loader that returns None is taken for a
\* split without data, and the build goes on.
process_split_lenient(b, split_name, ret) ==
    LET b1 == [b EXCEPT
                 !.transform_pipeline = WithPipe(b, @, "save_metadata"),
                 !.process_pipeline =
                     WithPipe(b, WithPipe(b, @, "save_samples"), "save_dataframe")]
        output_file_ == split_output_file(b, split_name)
    IN  IF "save_dataframe" \in DOMAIN b.pipeline_args /\ b.column_info = NoConfig
        THEN Raise(b1, "AttributeError", split_name)
        ELSE IF output_file_ \notin b.disk \/ b.overwrite
        THEN LET b2 == Call(b1, "loader", split_name, ret)
             IN  IF ret = NoTable
                 THEN b2
                 ELSE LET r  == IF b2.transform_pipeline # <<>>
                                THEN apply_pipeline(b2, ret,
                                                    b2.transform_pipeline, split_name)
                                ELSE [b |-> b2, df |-> ret]
                          b3 == IF r.b.summary_info /\ r.b.calculate_stats
                                THEN Call(r.b, "init_stats", split_name, r.df)
                                ELSE r.b
                      IN  process_split_tail(b3, r.df, split_name)
        ELSE IF b.calculate_stats \/ b.preprocess_text
        THEN process_split_tail(Call(b1, "load_dataframe", split_name, <<>>),
                                <<"load_dataframe">>, split_name)
        ELSE b1

\* DatasetBuilder._process_split(split_name); ret is what the loader
\* returns if it is invoked; the call of the loader is recorded with it.
process_split(b, split_name, ret) ==
    LET b1 == [b EXCEPT
                 !.transform_pipeline = WithPipe(b, @, "save_metadata"),
                 !.process_pipeline =
                     WithPipe(b, WithPipe(b, @, "save_samples"), "save_dataframe")]
        output_file_ == split_output_file(b, split_name)
    IN  IF "save_dataframe" \in DOMAIN b.pipeline_args /\ b.column_info = NoConfig
        THEN Raise(b1, "AttributeError", split_name)      \* self.column_info.get
        ELSE IF output_file_ \notin b.disk \/ b.overwrite
        THEN LET b2 == Call(b1, "loader", split_name, ret)
             IN  IF ret = NoTable
                 THEN Raise(b2, "ValueError", split_name)
                 ELSE LET r  == IF b2.transform_pipeline # <<>>
                                THEN apply_pipeline(b2, ret,
                                                    b2.transform_pipeline, split_name)
                                ELSE [b |-> b2, df |-> ret]
                          b3 == IF r.b.summary_info /\ r.b.calculate_stats
                                THEN Call(r.b, "init_stats", split_name, r.df)
                                ELSE r.b
                      IN  process_split_tail(b3, r.df, split_name)
        ELSE IF b.calculate_stats \/ b.preprocess_text
        THEN process_split_tail(Call(b1, "load_dataframe", split_name, <<>>),
                                <<"load_dataframe">>, split_name)
        ELSE b1                                           \* "No datasets found"

\* DatasetBuilder.build up to the loop over the splits (lines 70-82).
build_start(b) ==
    LET b1 == IF b.downloader # NoConfig
              THEN LET d1 == IF Field(b.downloader, "_target_", FALSE)
                             THEN Call(b, "downloader", None, <<>>) ELSE b
                   IN  IF Field(b.downloader, "pipeline", FALSE)
                       THEN Call(d1, "downloader.pipeline", None, <<>>) ELSE d1
              ELSE b
        b2 == IF b1.info_args # NoConfig
              THEN Call([b1 EXCEPT !.summary_info = TRUE], "summary_info.load", None, <<>>)
              ELSE b1
    IN  IF b2.fetch_sources.type = "none"
        THEN Raise(b2, "AttributeError", None)            \* None.items()
        ELSE [b2 EXCEPT !.pc = "splits", !.todo = b2.fetch_sources.value]

\* A mutation of the loop over the splits: a split without sources is
\* processed like any other.
build_split_all(b, ret) ==
    process_split([b EXCEPT !.todo = Tail(@)], Head(b.todo).split, ret)

\* One iteration of the loop over the splits (lines 82-85).
build_split(b, ret) ==
    LET item == Head(b.todo)
        b1   == [b EXCEPT !.todo = Tail(@)]
    IN  IF item.source = NoSource THEN b1
        ELSE process_split(b1, item.split, ret)

\* DatasetBuilder.build after the loop (lines 87-92).
build_end(b) ==
    LET b1 == IF b.summary_info THEN Call(b, "summary_info.save", None, <<>>) ELSE b
    IN  [b1 EXCEPT !.pc = "done"]

\* The arguments a DatasetBuilder is constructed with.
DatasetName == "ds"
DataDir == "data"
Source == <<"src.csv">>
ColumnInfo == [keys |-> [id |-> "id"], data |-> [text |-> "str"]]
Splits == {"train", "test"}

DataSources ==
    {[type |-> "str", value |-> "src.csv"],
     [type |-> "list", value |-> Source],
     [type |-> "dict", value |-> <<[split |-> "train", source |-> Source],
                                   [split |-> "test", source |-> Source]>>],
     [type |-> "dict", value |-> <<[split |-> "train", source |-> NoSource],
                                   [split |-> "test", source |-> Source]>>]}

Pipelines ==
    {[save_dataframe |-> <<>>],
     [_transform_ |-> <<"rename">>, save_metadata |-> <<>>, save_dataframe |-> <<>>],
     [_preprocess_ |-> <<"normalize">>, save_samples |-> <<>>]}

FetchArgs ==
    {a @@ b @@ c @@ d @@ e :
        a \in Opt("data_sources", DataSources),
        b \in Opt("overwrite", {TRUE}),
        c \in Opt("calculate_stats", {TRUE}),
        d \in Opt("preprocess_text", {TRUE}),
        e \in Opt("downloader", {[_target_ |-> TRUE, pipeline |-> TRUE]})}

BuilderArgs ==
    {[name |-> DatasetName, data_dir |-> DataDir, filetype |-> ".parquet",
      fetch |-> f] @@ c @@ i @@ p :
        f \in FetchArgs,
        c \in Opt("column_info", {ColumnInfo}),
        i \in Opt("info", {[_target_ |-> TRUE]}),
        p \in Opt("pipeline", Pipelines)}

\* The output files a split can have on disk before the build.
SplitFiles ==
    {[dir |-> DataDir, file |-> <<DatasetName, "-", s, ".parquet">>] : s \in Splits}

\* What the external loader returns: a table, or None.
LoaderResults == {Table, NoTable}

InitBuild ==
    /\ NoEntity
    /\ unit = Absent
    /\ dataset = Absent
    /\ procs = Absent
    /\ \E args \in BuilderArgs, disk \in SUBSET SplitFiles :
           builder = [pc |-> "args", args |-> args, disk |-> disk]

\* db = DatasetBuilder(**cfg)
ConstructBuilder ==
    /\ builder.pc = "args"
    /\ builder' = DatasetBuilder(builder.args, builder.disk)
    /\ UNCHANGED <<entity, unit, dataset, procs>>

\* db.build(), up to the loop over the splits.
BuildStart ==
    /\ builder.pc = "made"
    /\ builder' = build_start(builder)
    /\ UNCHANGED <<entity, unit, dataset, procs>>

\* db.build(), one split.
BuildSplit ==
    /\ builder.pc = "splits"
    /\ builder.todo # <<>>
    /\ \E ret \in LoaderResults : builder' = build_split(builder, ret)
    /\ UNCHANGED <<entity, unit, dataset, procs>>

\* db.build(), after the last split.
BuildEnd ==
    /\ builder.pc = "splits"
    /\ builder.todo = <<>>
    /\ builder' = build_end(builder)
    /\ UNCHANGED <<entity, unit, dataset, procs>>

NextBuild == ConstructBuilder \/ BuildStart \/ BuildSplit \/ BuildEnd

SpecBuild == InitBuild /\ [][NextBuild]_vars

---------------------------------------------------------------------------
\* Dataset (src/ekorpkit/datasets/dataset.py).  The dataset is the record
\* of its fields; `reads` lists the splits whose data file load_dataframe
\* was asked to read, in order, and `loads` counts the calls of load().

MaxLoads == 2

NoFile == [file |-> FALSE]

\* eKonf.merge(self.args, self.info): the info file wins key by key; two
\* column_info nodes are merged structurally, a null one replaces the node.
merge_info(args, info) ==
    [k \in DOMAIN args \cup DOMAIN info |->
        IF k \notin DOMAIN info THEN args[k]
        ELSE IF /\ k = "column_info" /\ k \in DOMAIN args
                /\ args[k] # NoConfig /\ info[k] # NoConfig
             THEN MergeNode(args[k], info[k])
        ELSE info[k]]

\* self.args after the info file, if there is a non-empty one, is merged in.
merged_args(args, info_file) ==
    IF info_file # NoFile /\ info_file # <<>> THEN merge_info(args, info_file)
    ELSE args

\* The loop of Dataset.load over data_files; `fail` is the split whose file
\* load_dataframe cannot read (None: every file is read).
RECURSIVE load_splits(_, _, _)
load_splits(d, data_files, fail) ==
    IF data_files = <<>> THEN [d EXCEPT !._loaded = TRUE, !.error = None]
    ELSE LET f  == Head(data_files)
             d1 == [d EXCEPT !.reads = Append(@, f.split)]
             df == <<"load_dataframe">> \o d.process_pipeline
         IN  IF f.split = fail THEN [d1 EXCEPT !.error = "IOError"]
             ELSE load_splits([d1 EXCEPT !.splits = (f.split :> df) @@ @],
                              Tail(data_files), fail)

\* A mutation of Dataset.load: the _loaded flag is not looked at.
load_again(d, fail) == load_splits(d, d.data_files, fail)

\* Dataset.load
load(d, fail) ==
    IF d._loaded THEN [d EXCEPT !.error = None]
    ELSE load_splits(d, d.data_files, fail)

\* A mutation of Dataset.__init__: autoload runs before column_info is
\* looked at.
Dataset_loadfirst(args0, info_file, fail) ==
    LET args         == merged_args(args0, info_file)
        name_        == args0.name
        filetype     == Field(args, "filetype", "csv")
        column_info  == Field(args, "column_info", NoConfig)
        pipeline_args == Field(args, "pipeline", <<>>)
        d == [pc |-> "made", name |-> name_,
              data_files |-> Field(args, "data_files",
                  <<[split |-> "train", file |-> <<name_, "-train.", filetype>>],
                    [split |-> "dev", file |-> <<name_, "-dev.", filetype>>],
                    [split |-> "test", file |-> <<name_, "-test.", filetype>>]>>),
              column_info |-> column_info,
              process_pipeline |-> Field(pipeline_args, "_pipeline_", <<>>),
              splits |-> <<>>, _loaded |-> FALSE, reads |-> <<>>, loads |-> 0,
              error |-> None, given |-> [args |-> args0, info_file |-> info_file]]
        l == IF Field(args, "autoload", FALSE) THEN load(d, fail) ELSE d
    IN  IF column_info = NoConfig
        THEN [l EXCEPT !.pc = "raised", !.error = "ValueError"]
        ELSE l

\* Dataset.__init__(**args) with the info file found in data_dir (NoFile:
\* there is none); `fail` as in load, for autoload.
Dataset(args0, info_file, fail) ==
    LET args         == merged_args(args0, info_file)
        name_        == args0.name
        filetype     == Field(args, "filetype", "csv")
        column_info  == Field(args, "column_info", NoConfig)
        pipeline_args == Field(args, "pipeline", <<>>)
        d == [pc |-> "made", name |-> name_,
              data_files |-> Field(args, "data_files",
                  <<[split |-> "train", file |-> <<name_, "-train.", filetype>>],
                    [split |-> "dev", file |-> <<name_, "-dev.", filetype>>],
                    [split |-> "test", file |-> <<name_, "-test.", filetype>>]>>),
              column_info |-> column_info,
              process_pipeline |-> Field(pipeline_args, "_pipeline_", <<>>),
              splits |-> <<>>, _loaded |-> FALSE, reads |-> <<>>, loads |-> 0,
              error |-> None, given |-> [args |-> args0, info_file |-> info_file]]
    IN  IF column_info = NoConfig
        THEN [d EXCEPT !.pc = "raised", !.error = "ValueError"]
        ELSE IF "keys" \notin DOMAIN column_info \/ "id" \notin DOMAIN column_info.keys
        THEN [d EXCEPT !.pc = "raised", !.error = "KeyError"]
        ELSE IF Field(args, "autoload", FALSE)
        THEN LET l == load(d, fail)
             IN  IF l.error # None THEN [l EXCEPT !.pc = "raised"] ELSE l
        ELSE d

\* The arguments and the info file a Dataset is constructed with.
ColumnInfos == {NoConfig, ColumnInfo, [data |-> [text |-> "str"]]}

DatasetArgs ==
    {[name |-> DatasetName, data_dir |-> DataDir] @@ a @@ c @@ f @@ p :
        a \in Opt("autoload", {TRUE}),
        c \in Opt("column_info", ColumnInfos),
        f \in Opt("data_files", {<<[split |-> "train", file |-> <<"t.csv">>]>>}),
        p \in Opt("pipeline", {[_pipeline_ |-> <<"normalize">>]})}

InfoFiles ==
    {NoFile, <<>>, [description |-> "d"]}
        \cup {[column_info |-> c] : c \in ColumnInfos}

\* The split whose file cannot be read, if any.
ReadFailures == {None, "train", "dev"}

InitDataset ==
    /\ NoEntity
    /\ unit = Absent
    /\ builder = Absent
    /\ procs = Absent
    /\ \E args \in DatasetArgs, info_file \in InfoFiles :
           dataset = [pc |-> "args", args |-> args, info_file |-> info_file]

\* ds = Dataset(**args)
ConstructDataset ==
    /\ dataset.pc = "args"
    /\ \E fail \in ReadFailures :
           dataset' = Dataset(dataset.args, dataset.info_file, fail)
    /\ UNCHANGED <<entity, unit, builder, procs>>

\* ds.load()
Load ==
    /\ dataset.pc = "made"
    /\ dataset.loads < MaxLoads
    /\ \E fail \in ReadFailures :
           dataset' = [load(dataset, fail) EXCEPT !.loads = @ + 1]
    /\ UNCHANGED <<entity, unit, builder, procs>>

NextDataset == ConstructDataset \/ Load

SpecDataset == InitDataset /\ [][NextDataset]_vars

---------------------------------------------------------------------------
\* Vocabulary of the properties.

\* The config files persisted for batch name n under output directory out.
ConfigFilesOf(out, n) ==
    {f \in DOMAIN files : /\ f.dir = out \o <<n, "configs">>
                          /\ f.file[1] = n
                          /\ f.file[Len(f.file)] = "config.yaml"}

\* The number the directory scan gives the entity's batch as it is now named
\* and placed.
Scanned(resume) ==
    LET N == Cardinality(ConfigFilesOf(batch.output_dir, batch.batch_name))
    IN  IF resume THEN N - 1 ELSE N

\* The last operation was an assignment to name or batch_name.
Renamed == last.op = "setattr" /\ last.key \in {"name", "batch_name"}

\* The last operation was load_config with a batch_num, and whether the
\* config file it looked for was there.
LoadedNum == last.op = "load" /\ last.batch_num # Unset
LoadedFound == LoadedNum /\ last.path \in DOMAIN files
LoadedMissing == LoadedNum /\ last.path \notin DOMAIN files

\* The keys of the snapshot that carry domain settings (not the batch
\* identity the entity patches).
DomainKeys == {"model", "version"}

\* A BaseBatchConfig or a PathConfig has been constructed on its own.
BatchMade == unit.pc = "made" /\ unit.class = "BaseBatchConfig"
PathMade == unit.pc = "made" /\ unit.class = "PathConfig"

\* The caller passed a seed that is not None.
SeedGiven == "seed" \in DOMAIN unit.data /\ unit.data.seed # Unset

\* The last property read off the object, and its value.
Read(prop) == unit.resolved # <<>> /\ unit.resolved[1] = prop
Value == unit.resolved[2]

---------------------------------------------------------------------------
\* C1: a freshly constructed batch config with batch_num unset gets
\* batch_num = N, the number of config files persisted for its batch name in
\* its config directory, or N - 1 when resume_latest is set.
C1_FreshBatchNum ==
    last.op = "construct" => batch.batch_num = Scanned(ctor.resume)

\* C1 witness: an entity constructed with resume_latest over at least one
\* persisted config file.
C1_Witness ==
    /\ last.op = "construct"
    /\ ctor.resume
    /\ Cardinality(ConfigFilesOf(batch.output_dir, batch.batch_name)) >= 1

\* C2 (as claimed): with N config files persisted for the name, a fresh
\* entity (resume_latest false) has batch_num = N; once it has called
\* save_config() the file "{name}(N)_config.yaml" exists; and the next fresh
\* entity of the same name has batch_num = N + 1.
C2_NextRunNumber ==
    /\ (last.op = "construct" /\ ~ctor.resume) => batch.batch_num = Scanned(FALSE)
    /\ (last.op = "save" /\ last.fresh /\ last.config = NoConfig)
          => config_filepath(batch) \in DOMAIN files
    /\ (/\ last.op = "construct"
        /\ last.prev.fresh_save
        /\ ~ctor.resume
        /\ ~last.prev.ctor.resume)
          => batch.batch_num = last.prev.num + 1

\* C3 (as claimed): load_config without batch_num (and without batch_name)
\* leaves the entity's batch number as it was before the call.
C3_LoadKeepsNum ==
    (last.op = "load" /\ last.batch_num = Unset /\ last.batch_name = None)
        => batch.batch_num = last.pre_num

\* C4 (as claimed): after name or batch_name is assigned X, batch_num is the
\* number a new directory scan under X gives (count, or count - 1 with
\* resume_latest).
C4_RenameRescans ==
    Renamed => batch.batch_num = Scanned(config.batch.resume_latest)

\* C5 (as claimed): load_config with a batch_num whose config file exists
\* leaves the domain settings of the live snapshot at merge(the configuration
\* the entity was constructed from, the file, the overrides), whatever was
\* written to the live snapshot before, and the batch number at the
\* requested one.
C5_LoadFromBaseline ==
    LoadedFound =>
        /\ batch.batch_num = last.batch_num
        /\ \A k \in DomainKeys :
              config[k] = Merge(Merge(CtorArgs, files[last.path]), last.args)[k]

C7_BaselineFixed ==
    initial = CtorArgs

\* C8 (as claimed): a config written by save_config with the default exclude
\* set, loaded by number on a freshly constructed entity without overrides,
\* gives a live snapshot equal to the saved configuration on every
\* non-excluded top-level key.
C8_RoundTrip ==
    (LoadedFound /\ last.fresh /\ last.args = NoArgs
        /\ DOMAIN files[last.path] = DOMAIN config \ exclude)
      => \A k \in DOMAIN config \ exclude : config[k] = files[last.path][k]

\* C9 (as claimed): the batch sub-object and its mirror in the live snapshot
\* agree on batch_num and output_dir after every operation.
C9_MirrorConsistent ==
    /\ batch.batch_num = config.batch.batch_num
    /\ batch.output_dir = ToPath(config.batch.output_dir)

\* C10: after name or batch_name is assigned X, and after load_config with
\* batch_name X, the entity's name, the snapshot's name, the snapshot's
\* batch.batch_name and the sub-object's batch_name are all X.
C10_NameViews ==
    LET X == IF Renamed THEN last.val ELSE last.batch_name
    IN  (Renamed \/ (last.op = "load" /\ last.batch_name # None))
          => /\ name = X
             /\ config.name = X
             /\ config.batch.batch_name = X
             /\ batch.batch_name = X

\* C10 witness: load_config with a batch_name other than the one the entity
\* was constructed with.
C10_Witness ==
    /\ last.op = "load"
    /\ last.batch_name = OtherName
    /\ ctor.name # OtherName
    /\ name = OtherName

---------------------------------------------------------------------------
\* C11 (as claimed): with random_seed false and an explicit seed >= 0 the
\* seed of a constructed BaseBatchConfig is that seed; in every other case,
\* a seed that is omitted or None included, it is a generated integer, never
\* None and never negative.
C11_SeedResolution ==
    BatchMade =>
        IF ~Field(unit.data, "random_seed", TRUE) /\ SeedGiven /\ unit.data.seed >= 0
        THEN unit.obj.seed = unit.data.seed
        ELSE unit.obj.seed # Unset /\ unit.obj.seed >= 0

Segment(prop, batch_name) ==
    CASE prop = "output_dir"  -> <<"outputs">>
      [] prop = "batch_dir"   -> <<"outputs", batch_name>>
      [] prop = "library_dir" -> <<"libs">>
      [] prop = "data_dir"    -> <<"data">>
      [] prop = "model_dir"   -> <<"models">>
      [] prop = "cache_dir"   -> <<"cache">>
      [] prop = "tmp_dir"     -> <<"tmp">>

\* C15 (as claimed): the batch_dir of a PathConfig is
\* root/outputs/batch_name, and that directory exists once batch_dir has
\* been read.
C15_PathDirExists ==
    (PathMade /\ Read("batch_dir")) =>
        /\ Value = <<unit.data.root, "outputs", unit.data.batch_name>>
        /\ Value \in unit.dirs

\* What holds once a property has been read: a PathConfig property is
\* root/<segment> and no directory has been created; BaseBatchConfig.batch_dir
\* is output_dir/batch_name, config_dir is output_dir/batch_name/configs, and
\* the directories read exist.
ResolvedRight ==
    (unit.pc = "made" /\ unit.resolved # <<>>) =>
        /\ PathMade =>
              /\ Value = <<unit.data.root>>
                            \o Segment(unit.resolved[1], unit.data.batch_name)
              /\ unit.dirs = {}
        /\ (BatchMade /\ Read("batch_dir")) =>
              /\ Value = unit.obj.output_dir \o <<unit.data.batch_name>>
              /\ Value \in unit.dirs
        /\ (BatchMade /\ Read("config_dir")) =>
              /\ Value = unit.obj.output_dir \o <<unit.data.batch_name, "configs">>
              /\ Value \in unit.dirs
              /\ SubSeq(Value, 1, Len(Value) - 1) \in unit.dirs

\* C15 (amended): every PathConfig property is root/<fixed segment>
\* (batch_dir: root/outputs/batch_name) and reading it creates nothing; the
\* batch directory is created by BaseBatchConfig.batch_dir and config_dir,
\* which give output_dir/batch_name[/configs], and it exists once they have
\* been read; reading the same property again changes neither its value nor
\* the disk.
C15_Resolution ==
    [][/\ ResolvedRight'
       /\ (unit.pc = "made" /\ unit'.pc = "made"
             /\ unit.resolved # <<>> /\ unit'.resolved = unit.resolved)
            => unit'.dirs = unit.dirs]_vars

\* C15 witness: a BaseBatchConfig built with an explicit batch_num (so that
\* construction creates nothing) whose batch_dir has been read and exists.
C15_Witness ==
    /\ BatchMade
    /\ "batch_num" \in DOMAIN unit.data
    /\ Read("batch_dir")
    /\ Value \in unit.dirs

\* The extension as the claim gives it: the configured one without its
\* leading dot, empty when none is configured.
Extension ==
    LET v == Field(unit.data, "output_extention", <<>>)
    IN  IF v = NoStr \/ v = <<>> THEN <<>>
        ELSE IF Head(v) = "." THEN Tail(v) ELSE v

\* C16: file_prefix is "{batch_name}({batch_num})", config_filename is
\* "{file_prefix}_config.yaml", config_jsonfile is "{file_prefix}_config.json"
\* and output_file is "{file_prefix}[_suffix].{extension}": the suffix part
\* only when output_suffix is set, the extension without its leading dot.
C16_DerivedNames ==
    LET prefix == <<unit.data.batch_name, "(", unit.obj.batch_num, ")">>
        suffix == Field(unit.data, "output_suffix", None)
    IN  BatchMade =>
          /\ Read("file_prefix") => Value = prefix
          /\ Read("config_filename") => Value = prefix \o <<"_", "config.yaml">>
          /\ Read("config_jsonfile") => Value = prefix \o <<"_", "config.json">>
          /\ Read("output_file") =>
                Value = prefix
                          \o (IF suffix \in {None, ""} THEN <<>> ELSE <<"_", suffix>>)
                          \o <<".">> \o Extension

\* C16 witness: output_file read off a config with the suffix "s" and the
\* extension ".csv".
C16_Witness ==
    /\ BatchMade
    /\ Read("output_file")
    /\ Field(unit.data, "output_suffix", None) = "s"
    /\ Field(unit.data, "output_extention", <<>>) = <<".", "csv">>
    /\ Value = <<"a", "(", 0, ")", "_", "s", ".", "csv">>

---------------------------------------------------------------------------
\* C13: save_config writes the live snapshot to config_filepath, keeping
\* exactly the keys of the include list when one is given and otherwise every
\* key outside the exclude list; it writes the settings document to
\* config_jsonpath and returns "{batch_name}({batch_num})_config.yaml" for
\* the entity's batch name and number.
C13_SaveFilters ==
    last.op = "save" =>
        LET dir  == batch.output_dir \o <<batch.batch_name, "configs">>
            stem == <<batch.batch_name, "(", batch.batch_num, ")", "_">>
            yaml == [dir |-> dir, file |-> stem \o <<"config.yaml">>]
            json == [dir |-> dir, file |-> stem \o <<"config.json">>]
            kept == IF last.include # {} THEN last.include
                    ELSE DOMAIN config \ {"_config_", "_initial_config_", "__data__",
                                          "path", "module", "secret", "auto", "project"}
        IN  /\ yaml \in DOMAIN files
            /\ DOMAIN files[yaml] = kept
            /\ \A k \in kept : files[yaml][k] = config[k]
            /\ json \in DOMAIN files
            /\ files[json].name = name
            /\ files[json].batch.batch_num = batch.batch_num
            /\ last.returned = yaml.file

\* C13 witness: a save_config with an include list, after which the config
\* file holds exactly the listed keys.
C13_Witness ==
    /\ last.op = "save"
    /\ last.include = SomeKeys
    /\ config_filepath(batch) \in DOMAIN files
    /\ DOMAIN files[config_filepath(batch)] = SomeKeys

\* C14 (as claimed): when the live snapshot has been changed after
\* construction and load_config is called without batch_num, the live
\* snapshot it leaves is merge(the changed snapshot, the overrides): every
\* changed key keeps its value.
C14_ReloadIsolation ==
    [][(/\ last.op \in {"setattr", "mutate"}
        /\ last'.op = "load"
        /\ last'.batch_num = Unset
        /\ last'.batch_name = None)
          => config' = Merge(config, last'.args)]_vars

---------------------------------------------------------------------------
\* DatasetBuilder.build

BuilderMade == builder.pc \in {"made", "splits", "raised", "done"}

\* The calls build() made so far for a split, by the collaborator.
CallsFor(split, fns) ==
    {i \in DOMAIN builder.calls :
        builder.calls[i].split = split /\ builder.calls[i].fn \in fns}

\* The split's output file was on disk before the build and overwrite is off.
SkipCase(split) ==
    /\ BuilderMade
    /\ ~builder.overwrite
    /\ split_output_file(builder, split) \in builder.existed

\* C17: for every split whose output file already exists while overwrite is
\* false, build() never invokes the loader for that split, whatever
\* calculate_stats and preprocess_text are, and it does not raise in it.
C17_SkipExisting ==
    \A split \in Splits :
        SkipCase(split) =>
            /\ CallsFor(split, {"loader"}) = {}
            /\ ~(builder.pc = "raised" /\ builder.raised_in = split)

\* The loader returned None for a split.
LoaderNone(i) ==
    /\ builder.calls[i].fn = "loader"
    /\ builder.calls[i].df = NoTable

\* C18: when the loader returns None for a split, build() raises at once:
\* the loader's call is the last call build() ever makes (no transform or
\* process step, no persistence, no statistics, no later split, no save of
\* the summary), and the split's output file is not written.
C18_LoaderNoneFatal ==
    BuilderMade =>
        \A i \in DOMAIN builder.calls :
            LoaderNone(i) =>
                /\ builder.pc = "raised"
                /\ builder.error = "ValueError"
                /\ builder.raised_in = builder.calls[i].split
                /\ i = Len(builder.calls)
                /\ split_output_file(builder, builder.calls[i].split) \in builder.disk
                       => split_output_file(builder, builder.calls[i].split)
                              \in builder.existed

\* The loader returns None for the second split, after the first split was
\* loaded and with a summary to save.
C18_Witness ==
    /\ BuilderMade
    /\ builder.pc = "raised"
    /\ builder.summary_info
    /\ Len(builder.calls) > 0
    /\ LoaderNone(Len(builder.calls))
    /\ builder.calls[Len(builder.calls)].split = "test"
    /\ CallsFor("train", {"loader"}) # {}
    /\ builder.todo = <<>>

\* The build needs the column configuration: the persist step is configured
\* or statistics are requested.
NeedsColumnInfo ==
    \/ "save_dataframe" \in DOMAIN builder.pipeline_args
    \/ builder.calculate_stats

\* C20: a builder whose column_info is missing while the persist step or
\* statistics are requested fails when it is constructed: build() never
\* gets to invoke the downloader, the loader or anything else for it.
C20_ValidatedAtConstruction ==
    (BuilderMade /\ builder.column_info = NoConfig /\ NeedsColumnInfo)
        => builder.calls = <<>>

---------------------------------------------------------------------------
\* Dataset

\* column_info of the merged configuration the Dataset was constructed with.
MergedColumnInfo ==
    Field(merged_args(dataset.given.args, dataset.given.info_file),
          "column_info", NoConfig)

\* C19: constructing a Dataset whose merged configuration has no column_info
\* raises ValueError before any split file is read, autoload or not, and a
\* constructed Dataset never has column_info None.
C19_ColumnInfoRequired ==
    dataset.pc \in {"made", "raised"} =>
        /\ MergedColumnInfo = NoConfig =>
               /\ dataset.pc = "raised"
               /\ dataset.error = "ValueError"
               /\ dataset.reads = <<>>
               /\ dataset.splits = <<>>
        /\ dataset.pc = "made" => dataset.column_info # NoConfig

\* A Dataset with autoload whose column_info is made null by the info file.
C19_Witness ==
    /\ dataset.pc = "raised"
    /\ dataset.error = "ValueError"
    /\ "autoload" \in DOMAIN dataset.given.args
    /\ "column_info" \in DOMAIN dataset.given.args
    /\ dataset.given.args.column_info = ColumnInfo
    /\ dataset.given.info_file = [column_info |-> NoConfig]

\* The splits of data_files, in the order of the dict.
SplitNames(data_files) == [i \in DOMAIN data_files |-> data_files[i].split]

\* A call of load() that returned: on a Dataset that is not loaded yet it
\* reads every data file once, in order; on a loaded one it reads nothing
\* and leaves the splits as they are.
LoadReturned ==
    /\ dataset.pc = "made"
    /\ dataset'.pc = "made"
    /\ dataset'.loads = dataset.loads + 1
    /\ dataset'.error = None

\* C21: load is idempotent.  The first successful load() reads each split's
\* data file exactly once; every later call reads nothing and leaves the
\* splits table unchanged.  The load() of autoload counts as a call.
C21_LoadIdempotent ==
    [][/\ LoadReturned =>
            IF dataset._loaded
            THEN /\ dataset'.reads = dataset.reads
                 /\ dataset'.splits = dataset.splits
                 /\ dataset'._loaded
            ELSE /\ dataset'.reads = dataset.reads \o SplitNames(dataset.data_files)
                 /\ DOMAIN dataset'.splits
                        = {dataset.data_files[i].split : i \in DOMAIN dataset.data_files}
                 /\ dataset'._loaded
       /\ (dataset.pc = "args" /\ dataset'.pc = "made" /\ dataset'._loaded)
              => dataset'.reads = SplitNames(dataset'.data_files)]_vars

\* Two calls of load() returned on a Dataset without autoload, and each of
\* the three default splits was read once.
C21_Witness ==
    /\ dataset.pc = "made"
    /\ dataset.loads >= 2
    /\ dataset._loaded
    /\ dataset.reads = <<"train", "dev", "test">>
    /\ "autoload" \notin DOMAIN dataset.given.args

---------------------------------------------------------------------------
\* DatasetBuilder: the stages of a split

\* The calls build() made for a split, in order, and their collaborators.
SplitCalls(split) == SelectSeq(builder.calls, LAMBDA c : c.split = split)
Fns(calls) == [i \in DOMAIN calls |-> calls[i].fn]

\* The loader was invoked for the split and returned a table.
Fetched(split) ==
    /\ BuilderMade
    /\ \E i \in DOMAIN builder.calls :
           /\ builder.calls[i].fn = "loader"
           /\ builder.calls[i].split = split
           /\ builder.calls[i].df = Table

StatsOn == builder.calculate_stats /\ builder.summary_info

\* fetch, the transform steps, the process steps, the statistics.
Stages ==
    <<"loader">> \o builder.transform_pipeline
        \o (IF StatsOn THEN <<"init_stats">> ELSE <<>>)
        \o builder.process_pipeline
        \o (IF StatsOn THEN <<"calculate_stats">> ELSE <<>>)

\* The table a call receives is the one the calls before it produced
\* (init_stats returns no table).
Chained(calls) ==
    \A i \in DOMAIN calls :
        i > 1 => calls[i].df
                    = SelectSeq(SubSeq(Fns(calls), 1, i - 1),
                                LAMBDA f : f # "init_stats")

\* The calls of a split are not interleaved with those of another split.
Contiguous(split) ==
    \A i, j, k \in DOMAIN builder.calls :
        (i < j /\ j < k /\ builder.calls[i].split = split
               /\ builder.calls[k].split = split)
            => builder.calls[j].split = split

\* The split's table was written to the split's output file by this build.
Persisted(split) ==
    /\ CallsFor(split, {"save_dataframe"}) # {}
    /\ split_output_file(builder, split) \in builder.disk

InOrder(split) ==
    /\ Fns(SplitCalls(split)) = Stages
    /\ Chained(SplitCalls(split))
    /\ Contiguous(split)
    /\ CallsFor(split, {"calculate_stats"}) # {} => builder.calculate_stats

---------------------------------------------------------------------------
\* DatasetBuilder: the summary

\* The splits of fetch_sources whose source list is None.
NoSourceSplits ==
    IF builder.fetch_sources.type = "dict"
    THEN {builder.fetch_sources.value[i].split :
              i \in {j \in DOMAIN builder.fetch_sources.value :
                        builder.fetch_sources.value[j].source = NoSource}}
    ELSE {}

SummarySaves ==
    {i \in DOMAIN builder.calls : builder.calls[i].fn = "summary_info.save"}

\* C24: a build() that completes with a summary-info object configured
\* saves the summary exactly once, after everything done for the splits;
\* a split whose source list is None gets no loader, pipeline or
\* statistics call.
C24_SummaryOnce ==
    BuilderMade =>
        /\ (builder.pc = "done" /\ builder.info_args # NoConfig)
               => SummarySaves = {Len(builder.calls)}
        /\ builder.pc # "done" => SummarySaves = {}
        /\ \A split \in NoSourceSplits : SplitCalls(split) = <<>>

\* A build with a summary completed: the train split had no sources and
\* the test split was fetched.
C24_Witness ==
    /\ builder.pc = "done"
    /\ builder.summary_info
    /\ NoSourceSplits = {"train"}
    /\ Fetched("test")
    /\ SummarySaves # {}

\* C25: with overwrite false, build() never writes a split output file that
\* existed before the build: no save_dataframe step runs for that split,
\* whatever calculate_stats and preprocess_text are.
C25_ExistingUntouched ==
    \A split \in Splits :
        SkipCase(split) => CallsFor(split, {"save_dataframe"}) = {}

\* C30: whenever calculate_stats is called for a split, init_stats was
\* called earlier in the same build for that split, for fetched splits and
\* for splits whose existing output file was reloaded.
C30_InitBeforeCalculate ==
    BuilderMade =>
        \A i \in DOMAIN builder.calls :
            builder.calls[i].fn = "calculate_stats" =>
                \E j \in 1..(i - 1) :
                    /\ builder.calls[j].fn = "init_stats"
                    /\ builder.calls[j].split = builder.calls[i].split

---------------------------------------------------------------------------
\* Entity: what a construction and an assignment leave

\* C26: a freshly constructed entity (batch_num unset, resume_latest false)
\* has a batch_num for which no config file exists yet, whatever
\* constructions, batch_num assignments, loads and saves came before.
C26_FreshNumberFree ==
    (last.op = "construct" /\ ~ctor.resume)
        => config_filepath(batch) \notin DOMAIN files

\* C27: a batch_num derived by the directory scan is never negative, also
\* with resume_latest and no config file.
C27_NonNegative ==
    last.op = "construct" => batch.batch_num >= 0

\* C28: entity.seed is the seed resolved at construction, across name and
\* batch_name assignments, the other assignments and load_config.
C28_SeedFixed ==
    (unit.pc = "made" /\ unit.class = "BaseBatchModel")
        => unit.obj.seed = unit.seed0

\* entity.output_dir was assigned by the last operation.
OutputDirAssigned == last.op = "setattr" /\ last.key = "output_dir"

\* The next operation is a name or batch_name assignment or a load_config.
NameOrLoad ==
    \/ last'.op = "setattr" /\ last'.key \in {"name", "batch_name"}
    \/ last'.op = "load"

\* C29: after entity.output_dir = X the batch sub-object and the snapshot
\* hold X and entity.output_dir reads X, and a later name reassignment or
\* load_config leaves them so.
C29_OutputDirStays ==
    [][/\ (last'.op = "setattr" /\ last'.key = "output_dir" /\ steps' = steps + 1)
             => /\ batch'.output_dir = last'.val
                /\ config'.batch.output_dir = Str(last'.val)
                /\ path_output_dir(path') = last'.val
       /\ (OutputDirAssigned /\ NameOrLoad /\ steps' = steps + 1)
             => /\ batch'.output_dir = batch.output_dir
                /\ config'.batch.output_dir = config.batch.output_dir]_vars

---------------------------------------------------------------------------
\* Two processes

Live(p) == procs.ents[p].pc \in {"made", "saved"}
Saved(p) == procs.ents[p].pc = "saved"
Ent(p) == procs.ents[p].s

\* The position of a step in the log.
At(p, op) == CHOOSE i \in DOMAIN procs.log : procs.log[i] = <<p, op>>

\* p and q work in the same output directory on the same batch name.
SameBatch(p, q) ==
    /\ Ent(p).batch.output_dir = Ent(q).batch.output_dir
    /\ Ent(p).batch.batch_name = Ent(q).batch.batch_name

\* Both processes scanned the directory before either of them saved.
BothScannedFirst(p, q) ==
    /\ Saved(p) => At(q, "construct") < At(p, "save")
    /\ Saved(q) => At(p, "construct") < At(q, "save")

\* C22: the scans of config_dir are not locked.  Two processes that each
\* construct a fresh entity for the same batch name in the same output
\* directory before either has saved derive the same batch_num, so two
\* live entities hold the same (batch_name, batch_num); when both have
\* saved, the file of that number holds what the later one wrote.
C22_ScanRace ==
    procs # Absent =>
        \A p, q \in Procs :
            (p # q /\ Live(p) /\ Live(q) /\ SameBatch(p, q) /\ BothScannedFirst(p, q))
                => /\ Ent(p).batch.batch_num = Ent(q).batch.batch_num
                   /\ (Saved(p) /\ Saved(q) /\ At(p, "save") < At(q, "save"))
                        => /\ config_filepath(Ent(p).batch) = config_filepath(Ent(q).batch)
                           /\ files[config_filepath(Ent(p).batch)]
                                 = Ent(q).files[config_filepath(Ent(q).batch)]

\* Both processes constructed, then both saved: they hold the same batch
\* name and number, and the config file the first wrote was replaced by a
\* different one.
C22_Witness ==
    /\ procs # Absent
    /\ Saved(1) /\ Saved(2)
    /\ SameBatch(1, 2)
    /\ Ent(1).batch.batch_num = Ent(2).batch.batch_num
    /\ At(2, "construct") < At(1, "save")
    /\ At(1, "save") < At(2, "save")
    /\ files[config_filepath(Ent(1).batch)]
          # Ent(1).files[config_filepath(Ent(1).batch)]

====
